---- MODULE Spec2Model ----
(***************************************************************************)
(* GPU worker-pool scheduler of AICinePipe (master server).                *)
(*                                                                         *)
(* State: the job store (JobManager over SQLite), the scheduling registry  *)
(* (Scheduler._workers), the transport's table of open connections, one    *)
(* receive loop per worker connection, the in-flight job-creation          *)
(* requests, the Health Monitor and a clock.                               *)
(*                                                                         *)
(* The master runs on one asyncio event loop: the code between two awaits  *)
(* is one atomic step.  The awaits that really suspend are                 *)
(* websocket.receive_text() and ws_manager.send_personal_message().        *)
(* Time is counted in units of 30 seconds.  VRAM is counted in MB; the     *)
(* code's comparison free_mb/1024.0 >= need_gb is the comparison           *)
(* free_mb >= need_gb*1024 (division by 1024 is exact in binary floating   *)
(* point).                                                                 *)
(***************************************************************************)
EXTENDS Integers, Sequences, FiniteSets, TLC

(* ------------------------------ bounds -------------------------------- *)
NumWorkers == 2
MaxJobs == 1
MaxTime == 3

Workers == 1..NumWorkers
JobIds == 1..MaxJobs

(* ------------------------------ None values --------------------------- *)
NoWorker == 0
NoJob == 0
NoTime == 0
NoMsg == "<None>"

(* ------------------------- program constants -------------------------- *)
MaxAttempts == 5
OfflineThreshold == 1

(* VRAM_REQUIREMENTS, in GB; the kinds a job of the model can carry.      *)
WorkflowTypes == {"wan_2_2", "text_to_image"}

VRAM_REQUIREMENTS ==
    [k \in {"flux_t2i", "flux_i2i", "sdxl_t2i", "sdxl_i2i", "sd15_t2i",
            "sd15_i2i", "controlnet", "inpainting", "qwen_image_edit",
            "instruct_pix2pix", "wan_animate", "wan_2_2", "ltx_2", "svi",
            "cogvideox", "hunyuan_video", "rife_interpolation",
            "real_esrgan", "upscale", "default"} |->
        CASE k \in {"flux_t2i", "flux_i2i"} -> 14
          [] k \in {"sdxl_t2i", "sdxl_i2i", "instruct_pix2pix", "default"} -> 8
          [] k \in {"sd15_t2i", "sd15_i2i", "rife_interpolation", "real_esrgan"} -> 4
          [] k = "controlnet" -> 16
          [] k \in {"inpainting", "qwen_image_edit"} -> 10
          [] k \in {"wan_animate", "wan_2_2", "svi"} -> 20
          [] k = "ltx_2" -> 36
          [] k \in {"cogvideox", "hunyuan_video"} -> 24
          [] k = "upscale" -> 6]

(* GPU snapshots a heartbeat can report (after _map_gpu_data): 24 GB free   *)
(* on one GPU, 16 GB free over two GPUs.                                   *)
Gpu24 == << [memory_total_mb |-> 24576, memory_used_mb |-> 0] >>
GpuSnapshots ==
    { Gpu24,
      << [memory_total_mb |-> 16384, memory_used_mb |-> 8192],
         [memory_total_mb |-> 8192, memory_used_mb |-> 0] >> }

\* GPU lists as the agent's heartbeat carries them (gpu_reporter): detected
\* GPUs, and the placeholder entry reported when detection failed
RawGpu24 == << [memory_total |-> 24576, memory_used |-> 0, is_simulated |-> FALSE] >>
RawSnapshots ==
    { RawGpu24,
      << [memory_total |-> 16384, memory_used |-> 8192, is_simulated |-> FALSE],
         [memory_total |-> 8192, memory_used |-> 0, is_simulated |-> FALSE] >> }
RawSimulated == << [memory_total |-> 24576, memory_used |-> 1024, is_simulated |-> TRUE] >>

(* The records Scheduler.register_worker is handed by a caller that builds  *)
(* the WorkerInfo itself: 24, 20 or 10 GB free, any status, with or without *)
(* a current job, real or placeholder GPU data.                            *)
Gpu20 == << [memory_total_mb |-> 24576, memory_used_mb |-> 4096] >>
Gpu10 == << [memory_total_mb |-> 12288, memory_used_mb |-> 2048] >>
RegGpus == { Gpu24, Gpu20, Gpu10 }

\* required_vram_gb arguments of select_worker: None (the default), 0, 8
NoVram == -1
RequiredVram == { NoVram, 0, 8 }

\* output_files of job_completed messages: a list of file descriptions; a
\* key the description does not have is NoKey
NoKey == "<absent>"
OutputLists ==
    { << [url |-> "http://w/view?filename=out.png", filename |-> "out.png"] >> }
\* with a second message, whose descriptions lack keys
AllOutputLists ==
    OutputLists \cup
    { << [url |-> NoKey, filename |-> "a.png"], [url |-> NoKey, filename |-> NoKey] >> }
\* error texts of job_failed messages; the agent reports str(e), which is
\* empty for an exception raised without a message
ErrorTexts == { "oom", "" }
ProgressValues == { 50 }

\* inbound frames that are not a message of the protocol: a body that is not
\* JSON, a JSON object of unknown type, a JSON value that is not an object
MalformedKinds == { "bad_json", "unknown_type", "not_an_object" }

JobStatus == {"pending", "assigned", "running", "completed", "failed", "cancelled"}
Terminal == {"completed", "failed", "cancelled"}
WorkerStatuses == {"online", "busy", "offline", "error"}
\* the statuses a status update reports for a live worker
ReportedStatuses == {"online", "busy"}

VARIABLES
    jobs,        \* job store: JobIds -> row, or NoRow for an id not created yet
    workers,     \* Scheduler._workers: worker id -> WorkerInfo (registered ids only)
    reg_order,   \* insertion order of Scheduler._workers (dict order)
    conn,        \* ws_manager.active_connections, in insertion order
    pc,          \* receive loop of each worker connection: closed / recv / send
    frame,       \* locals of a receive loop suspended in schedule_job
    http,        \* create_job requests suspended in send_personal_message
    alive,       \* the worker process still sends messages
    hm_running,  \* HealthMonitor._running
    hm_task,     \* HealthMonitor._task: none / live / cancelled
    hm_loops,    \* number of _poll_loop tasks that have not ended
    now,         \* clock
    ev           \* history: what the last step did (op, worker, job, flag)

vars == << jobs, workers, reg_order, conn, pc, frame, http, alive,
           hm_running, hm_task, hm_loops, now, ev >>

NoRow == [status |-> "absent"]
NoFrame == [job |-> NoJob, sel |-> NoWorker, attempt |-> 0, stale |-> FALSE, fit |-> FALSE]
Ev(op, w, j, flag) == [op |-> op, w |-> w, j |-> j, flag |-> flag]
NoEv == Ev("none", NoWorker, NoJob, FALSE)
NoHttp == [target |-> NoWorker, fit |-> FALSE]

(* ------------------------------ helpers ------------------------------- *)
RECURSIVE SumFree(_)
SumFree(gpus) ==
    IF gpus = << >> THEN 0
    ELSE (Head(gpus).memory_total_mb - Head(gpus).memory_used_mb) + SumFree(Tail(gpus))

\* WorkerInfo.free_vram_gb, in MB
free_vram_mb(w) == SumFree(w.gpus)

\* WorkerInfo.is_available
is_available(w) == w.status = "online" /\ w.current_job_id = NoJob

\* Scheduler.get_vram_requirement, in GB
get_vram_requirement(workflow_type) ==
    IF workflow_type \in DOMAIN VRAM_REQUIREMENTS
    THEN VRAM_REQUIREMENTS[workflow_type]
    ELSE VRAM_REQUIREMENTS["default"]

RemoveFrom(seq, x) == SelectSeq(seq, LAMBDA y : y # x)

(* ------------------------------ job store ----------------------------- *)
\* Job(...) as JobManager.create_job saves it: the model's defaults
NewJob(workflow_type) ==
    [status |-> "pending", workflow_type |-> workflow_type, progress |-> 0,
     priority |-> 1, assigned_worker_id |-> NoWorker,
     created_at |-> now, started_at |-> NoTime, completed_at |-> NoTime,
     error_message |-> NoMsg, output_files |-> << >>]

Exists(J, j) == j \in DOMAIN J /\ J[j] # NoRow

\* JobManager.update_job_status: the job store after the call
update_job_status(J, job_id, status, message) ==
    IF ~Exists(J, job_id) THEN J
    ELSE LET job == J[job_id]
             j1 == [job EXCEPT !.status = status]
             j2 == IF message # NoMsg /\ message # ""
                   THEN [j1 EXCEPT !.error_message = message] ELSE j1
             j3 == IF status = "running" THEN [j2 EXCEPT !.started_at = now]
                   ELSE IF status \in {"completed", "failed", "cancelled"}
                        THEN [j2 EXCEPT !.completed_at = now]
                        ELSE j2
         IN [J EXCEPT ![job_id] = j3]

\* what JobManager.update_job_status returns: the bare return for a missing
\* job and the end of the body otherwise, None both times
NoResult == "<None>"
update_job_status_result(J, job_id, status, message) ==
    IF ~Exists(J, job_id) THEN NoResult ELSE NoResult

\* (variant: the most urgent pending job first, oldest among equals)
get_pending_job_by_priority(J) ==
    LET pend == {j \in DOMAIN J : Exists(J, j) /\ J[j].status = "pending"}
    IN IF pend = {} THEN NoJob
       ELSE CHOOSE j \in pend :
              \A k \in pend :
                 \/ J[j].priority > J[k].priority
                 \/ J[j].priority = J[k].priority /\ J[j].created_at <= J[k].created_at

\* JobManager.get_pending_job: SELECT ... WHERE status = 'pending' ORDER BY
\* created_at ASC LIMIT 1 (creation times of different jobs differ), or NoJob
get_pending_job(J) ==
    LET pend == {j \in DOMAIN J : Exists(J, j) /\ J[j].status = "pending"}
    IN IF pend = {} THEN NoJob
       ELSE CHOOSE j \in pend : \A k \in pend : J[j].created_at <= J[k].created_at

\* JobManager.assign_job
assign_job(J, job_id, worker_id) ==
    IF Exists(J, job_id) /\ J[job_id].status = "pending"
    THEN [J EXCEPT ![job_id].status = "assigned",
                   ![job_id].assigned_worker_id = worker_id]
    ELSE J

\* JobManager.update_job_progress: UPDATE jobs SET progress = ? WHERE id = ?
update_job_progress(J, job_id, progress) ==
    IF ~Exists(J, job_id) THEN J
    ELSE [J EXCEPT ![job_id].progress = progress]

\* JobManager.set_job_output_files: UPDATE jobs SET output_files = ? WHERE id = ?
set_job_output_files(J, job_id, output_files) ==
    IF ~Exists(J, job_id) THEN J
    ELSE [J EXCEPT ![job_id].output_files = output_files]

(* ------------------------------ scheduler ----------------------------- *)
\* _map_gpu_data: the agent's GPU entries in the scheduler's keys; only the
\* two memory figures are carried over
map_gpu_data(raw_gpus) ==
    [i \in 1..Len(raw_gpus) |->
        [memory_total_mb |-> raw_gpus[i].memory_total,
         memory_used_mb |-> raw_gpus[i].memory_used]]

\* WorkerInfo(...) as the heartbeat branch of websocket_endpoint builds it
NewWorkerInfo(gpus) ==
    [gpus |-> gpus, status |-> "online", current_job_id |-> NoJob,
     last_heartbeat |-> NoTime, is_simulated |-> FALSE]

\* position of a registered worker in the registry dict
RECURSIVE IndexOf(_, _)
IndexOf(seq, x) ==
    IF seq = << >> THEN 0
    ELSE IF Head(seq) = x THEN 1
    ELSE 1 + IndexOf(Tail(seq), x)

\* (variant: the sort key is the free VRAM alone)
KeyGreater_vram_only(a, b) ==
    free_vram_mb(a) > free_vram_mb(b)

\* sort key of select_worker, compared as Python compares the tuples
\* (not w.is_simulated, w.free_vram_gb)
KeyGreater(a, b) ==
    \/ (~a.is_simulated) /\ b.is_simulated
    \/ (a.is_simulated = b.is_simulated) /\ free_vram_mb(a) > free_vram_mb(b)

\* (variant: the first candidate in registry order is returned, unsorted)
select_worker_first_match(W, ord, workflow_type, required_vram_gb) ==
    LET vram_needed == IF required_vram_gb \notin {NoVram, 0} THEN required_vram_gb
                       ELSE get_vram_requirement(workflow_type)
        candidates == {w \in DOMAIN W :
                          /\ is_available(W[w])
                          /\ ~(free_vram_mb(W[w]) < vram_needed * 1024)}
    IN IF candidates = {} THEN NoWorker
       ELSE CHOOSE c \in candidates :
              \A d \in candidates \ {c} : IndexOf(ord, c) < IndexOf(ord, d)

\* Scheduler.select_worker over registry W (dict order ord): the id of the
\* selected worker, or NoWorker.  `required_vram_gb or ...`: a falsy
\* argument (None or 0) falls back to the table.
select_worker(W, ord, workflow_type, required_vram_gb) ==
    LET vram_needed == IF required_vram_gb \notin {NoVram, 0} THEN required_vram_gb
                       ELSE get_vram_requirement(workflow_type)
        candidates == {w \in DOMAIN W :
                          /\ is_available(W[w])
                          /\ ~(free_vram_mb(W[w]) < vram_needed * 1024)}
    IN IF candidates = {} THEN NoWorker
       ELSE CHOOSE c \in candidates :
              \A d \in candidates \ {c} :
                 \/ KeyGreater(W[c], W[d])
                 \/ ~KeyGreater(W[d], W[c]) /\ IndexOf(ord, c) < IndexOf(ord, d)

\* the selected worker was available with enough free VRAM for the job
Fits(W, w, workflow_type) ==
    /\ w \in DOMAIN W
    /\ is_available(W[w])
    /\ free_vram_mb(W[w]) >= get_vram_requirement(workflow_type) * 1024

\* Scheduler.update_worker_status: the registry after the call.  gpus = << >>
\* of length 0 is a list like any other; NoGpus stands for gpus=None.
NoGpus == << [memory_total_mb |-> -1, memory_used_mb |-> -1] >>

\* (variant: marking a worker offline also clears its current job)
update_worker_status_clear_on_offline(W, worker_id, status, gpus, current_job_id) ==
    IF worker_id \notin DOMAIN W THEN W
    ELSE LET w1 == [W[worker_id] EXCEPT !.status = status, !.last_heartbeat = now]
             w2 == IF gpus # NoGpus THEN [w1 EXCEPT !.gpus = gpus] ELSE w1
             w3 == IF status = "offline" THEN [w2 EXCEPT !.current_job_id = NoJob]
                   ELSE IF current_job_id # NoJob
                        THEN [w2 EXCEPT !.current_job_id = current_job_id] ELSE w2
         IN [W EXCEPT ![worker_id] = w3]

update_worker_status(W, worker_id, status, gpus, current_job_id) ==
    IF worker_id \notin DOMAIN W THEN W
    ELSE LET w1 == [W[worker_id] EXCEPT !.status = status, !.last_heartbeat = now]
             w2 == IF gpus # NoGpus THEN [w1 EXCEPT !.gpus = gpus] ELSE w1
             w3 == IF current_job_id # NoJob
                   THEN [w2 EXCEPT !.current_job_id = current_job_id] ELSE w2
         IN [W EXCEPT ![worker_id] = w3]

InSeq(seq, x) == \E i \in 1..Len(seq) : seq[i] = x

\* a drain without the bound of five iterations
check_for_pending_jobs_unbounded(n, J, W, ord) ==
    LET job == get_pending_job(J)
    IN IF job = NoJob THEN [k |-> "done", f |-> NoFrame]
       ELSE LET wt == J[job].workflow_type
                sel == select_worker(W, ord, wt, get_vram_requirement(wt))
            IN IF sel = NoWorker THEN [k |-> "raise", f |-> NoFrame]
               ELSE [k |-> "send",
                     f |-> [job |-> job, sel |-> sel, attempt |-> n,
                            stale |-> FALSE, fit |-> Fits(W, sel, wt)]]

\* One pass of the loop body of Scheduler.check_for_pending_jobs from the
\* top of iteration n up to the await of the send in schedule_job:
\*   "done"    the loop ended (range exhausted, or no pending job)
\*   "raise"   select_worker found nobody, schedule_job returned None and
\*             job_manager.requeue_job, which JobManager does not define,
\*             raised AttributeError
\*   "send"    suspended in ws_manager.send_personal_message
check_for_pending_jobs(n, J, W, ord) ==
    IF n > MaxAttempts THEN [k |-> "done", f |-> NoFrame]
    ELSE LET job == get_pending_job(J)
         IN IF job = NoJob THEN [k |-> "done", f |-> NoFrame]
            ELSE LET wt == J[job].workflow_type
                     sel == select_worker(W, ord, wt, get_vram_requirement(wt))
                 IN IF sel = NoWorker THEN [k |-> "raise", f |-> NoFrame]
                    ELSE [k |-> "send",
                          f |-> [job |-> job, sel |-> sel, attempt |-> n,
                                 stale |-> FALSE, fit |-> Fits(W, sel, wt)]]

\* where the receive loop of connection h is after the drain outcome r: an
\* exception leaves websocket_endpoint through `except Exception`, which
\* calls manager.disconnect(client_id) and ends the loop
AfterDrain(h, r) ==
    /\ pc' = [pc EXCEPT ![h] = IF r.k = "done" THEN "recv"
                                ELSE IF r.k = "raise" THEN "closed" ELSE "send"]
    /\ conn' = IF r.k = "raise" THEN RemoveFrom(conn, h) ELSE conn

(* ------------------------------- Init --------------------------------- *)
Init ==
    /\ jobs = [j \in JobIds |-> NoRow]
    /\ workers = [w \in {} |-> NewWorkerInfo(<< >>)]
    /\ reg_order = << >>
    /\ conn = << >>
    /\ pc = [w \in Workers |-> "closed"]
    /\ frame = [w \in Workers |-> NoFrame]
    /\ http = [j \in JobIds |-> NoHttp]
    /\ alive = [w \in Workers |-> TRUE]
    /\ hm_running = FALSE
    /\ hm_task = "none"
    /\ hm_loops = 0
    /\ now = 1
    /\ ev = NoEv

(* --------------------------- transport loop --------------------------- *)
\* websocket_endpoint: manager.connect(websocket, client_id)
Connect(w) ==
    /\ pc[w] = "closed" /\ alive[w]
    /\ pc' = [pc EXCEPT ![w] = "recv"]
    /\ conn' = Append(RemoveFrom(conn, w), w)
    /\ ev' = NoEv
    /\ UNCHANGED << jobs, workers, reg_order, frame, http, alive, hm_running, hm_task, hm_loops, now >>

\* websocket_endpoint: receive_text raises WebSocketDisconnect
Disconnect(w) ==
    /\ pc[w] = "recv"
    /\ pc' = [pc EXCEPT ![w] = "closed"]
    /\ conn' = RemoveFrom(conn, w)
    /\ ev' = NoEv
    /\ UNCHANGED << jobs, workers, reg_order, frame, http, alive, hm_running, hm_task, hm_loops, now >>

\* websocket_endpoint, heartbeat branch: Scheduler.register_worker with a
\* fresh WorkerInfo, then check_for_pending_jobs up to its first await.
\* A loop suspended in schedule_job that holds the replaced WorkerInfo
\* object now holds an object the registry no longer refers to.
Heartbeat(w, raw_gpus) ==
    /\ pc[w] = "recv" /\ alive[w]
    /\ LET W1 == (w :> NewWorkerInfo(map_gpu_data(raw_gpus))) @@ workers
           ord1 == IF w \in DOMAIN workers THEN reg_order ELSE Append(reg_order, w)
           r == check_for_pending_jobs(1, jobs, W1, ord1)
       IN /\ workers' = W1
          /\ reg_order' = ord1
          /\ frame' = [h \in Workers |->
                         IF h = w THEN r.f
                         ELSE IF pc[h] = "send" /\ frame[h].sel = w
                              THEN [frame[h] EXCEPT !.stale = TRUE]
                              ELSE frame[h]]
          /\ AfterDrain(w, r)
          /\ ev' = IF r.k = "raise"
                   THEN Ev("no_capacity", w, get_pending_job(jobs), FALSE)
                   ELSE NoEv
    /\ UNCHANGED << jobs, http, alive, hm_running, hm_task, hm_loops, now >>

\* Scheduler.schedule_job after the await of the send: the registry once the
\* send has returned (delivered) or raised.  worker.status and
\* worker.current_job_id are written on the WorkerInfo object selected
\* before the await; if a heartbeat replaced the registry's entry meanwhile
\* (f.stale) the registry does not see the write.
\* (variant: the worker is marked busy whether or not the send succeeded)
schedule_job_resume_mark_always(W, f, delivered) ==
    IF ~f.stale
    THEN [W EXCEPT ![f.sel].status = "busy", ![f.sel].current_job_id = f.job]
    ELSE W

schedule_job_resume(W, f, delivered) ==
    IF delivered /\ ~f.stale
    THEN [W EXCEPT ![f.sel].status = "busy", ![f.sel].current_job_id = f.job]
    ELSE W

\* Scheduler.schedule_job resumed after the await of the send, and the rest
\* of check_for_pending_jobs up to its next await.  The send delivers only
\* to an open connection; ok = FALSE is a send that raises.
DrainSendReturn(h, ok) ==
    /\ pc[h] = "send"
    /\ LET f == frame[h]
           delivered == ok /\ InSeq(conn, f.sel)
           W1 == schedule_job_resume(workers, f, delivered)
           r == IF delivered
                THEN check_for_pending_jobs(f.attempt + 1, jobs, W1, reg_order)
                ELSE [k |-> "raise", f |-> NoFrame]
       IN /\ workers' = W1
          /\ frame' = [frame EXCEPT ![h] = r.f]
          /\ AfterDrain(h, r)
          /\ ev' = Ev(IF delivered THEN "dispatch_ok" ELSE "dispatch_fail",
                      f.sel, f.job, f.fit)
    /\ UNCHANGED << jobs, reg_order, http, alive, hm_running, hm_task, hm_loops, now >>

\* websocket_endpoint, job_started branch
JobStarted(w, j) ==
    /\ pc[w] = "recv" /\ alive[w]
    /\ jobs' = update_job_status(jobs, j, "running", NoMsg)
    /\ ev' = NoEv
    /\ UNCHANGED << workers, reg_order, conn, pc, frame, http, alive, hm_running, hm_task, hm_loops, now >>

\* websocket_endpoint, job_completed branch: the stored reference of a file
\* is f.get("url", f.get("filename", ""))
file_urls(output_files) ==
    [i \in 1..Len(output_files) |->
        IF output_files[i].url # NoKey THEN output_files[i].url
        ELSE IF output_files[i].filename # NoKey THEN output_files[i].filename
        ELSE ""]

\* websocket_endpoint, job_completed branch
JobCompleted(w, j, files) ==
    /\ pc[w] = "recv" /\ alive[w]
    /\ jobs' = update_job_status(set_job_output_files(jobs, j, file_urls(files)),
                                 j, "completed", NoMsg)
    /\ ev' = NoEv
    /\ UNCHANGED << workers, reg_order, conn, pc, frame, http, alive, hm_running, hm_task, hm_loops, now >>

\* websocket_endpoint, job_failed branch
JobFailed(w, j, error) ==
    /\ pc[w] = "recv" /\ alive[w]
    /\ jobs' = update_job_status(jobs, j, "failed", error)
    /\ ev' = NoEv
    /\ UNCHANGED << workers, reg_order, conn, pc, frame, http, alive, hm_running, hm_task, hm_loops, now >>

\* websocket_endpoint, job_progress branch
JobProgress(w, j, progress) ==
    /\ pc[w] = "recv" /\ alive[w]
    /\ jobs' = update_job_progress(jobs, j, progress)
    /\ ev' = NoEv
    /\ UNCHANGED << workers, reg_order, conn, pc, frame, http, alive, hm_running, hm_task, hm_loops, now >>

\* websocket_endpoint on a frame that is not a message of the protocol.
\* json.loads raising JSONDecodeError is caught inside the loop; an object
\* of unknown type falls to the else branch; on a JSON value that is not an
\* object msg.get raises AttributeError, which only the outer
\* `except Exception` catches: it disconnects and the loop is over.
Malformed(w, kind) ==
    /\ pc[w] = "recv" /\ alive[w]
    /\ pc' = [pc EXCEPT ![w] = IF kind = "not_an_object" THEN "closed" ELSE "recv"]
    /\ conn' = IF kind = "not_an_object" THEN RemoveFrom(conn, w) ELSE conn
    /\ ev' = Ev("malformed", w, NoJob, FALSE)
    /\ UNCHANGED << jobs, workers, reg_order, frame, http, alive, hm_running, hm_task, hm_loops, now >>

(* ------------------------------ job routes ---------------------------- *)
NextJobId ==
    IF \E j \in JobIds : jobs[j] = NoRow
    THEN CHOOSE j \in JobIds : jobs[j] = NoRow /\ \A k \in JobIds : jobs[k] = NoRow => j <= k
    ELSE NoJob

\* routers/jobs.py create_job up to its await: the record is saved pending;
\* with an open connection the first key of active_connections is picked
\* and the request suspends in the send; with none the job runs locally
\* (local_ok is the result of LocalExecutor.execute_job).
CreateJob(workflow_type, local_ok) ==
    /\ NextJobId # NoJob
    /\ LET j == NextJobId
           J1 == [jobs EXCEPT ![j] = NewJob(workflow_type)]
       IN IF conn # << >>
          THEN /\ jobs' = J1
               /\ http' = [http EXCEPT ![j] =
                             [target |-> Head(conn),
                              fit |-> Fits(workers, Head(conn), workflow_type)]]
               /\ ev' = NoEv
          ELSE /\ jobs' = IF local_ok
                          THEN update_job_status(J1, j, "running", "Started locally")
                          ELSE update_job_status(J1, j, "failed", "Local execution failed")
               /\ http' = http
               /\ ev' = NoEv
    /\ UNCHANGED << workers, reg_order, conn, pc, frame, alive, hm_running, hm_task, hm_loops, now >>

\* create_job resumed after the await of the send: on delivery the job is
\* set to assigned; a send that raises ends the request with HTTP 500.
CreateSendReturn(j, ok) ==
    /\ http[j] # NoHttp
    /\ LET delivered == ok /\ InSeq(conn, http[j].target)
       IN /\ jobs' = IF delivered THEN update_job_status(jobs, j, "assigned", NoMsg)
                     ELSE jobs
          /\ ev' = Ev(IF delivered THEN "create_sent" ELSE "create_fail",
                      http[j].target, j, http[j].fit)
    /\ http' = [http EXCEPT ![j] = NoHttp]
    /\ UNCHANGED << workers, reg_order, conn, pc, frame, alive, hm_running, hm_task, hm_loops, now >>

\* routers/jobs.py cancel_job: the body of the response
cancel_job_response(J, job_id) == [message |-> "Job cancelled"]

\* routers/jobs.py cancel_job
CancelJob(j) ==
    /\ jobs' = update_job_status(jobs, j, "cancelled", NoMsg)
    /\ ev' = NoEv
    /\ UNCHANGED << workers, reg_order, conn, pc, frame, http, alive, hm_running, hm_task, hm_loops, now >>

(* ------------------------------ registry ------------------------------ *)
\* Scheduler.update_worker_status called on the registry (the registry's
\* heartbeat-update operation)
UpdateWorkerStatus(w, status, gpus, current_job_id) ==
    /\ w \in DOMAIN workers
    /\ workers' = update_worker_status(workers, w, status, gpus, current_job_id)
    /\ ev' = NoEv
    /\ UNCHANGED << jobs, reg_order, conn, pc, frame, http, alive, hm_running, hm_task, hm_loops, now >>

\* WorkerInfo records a caller of register_worker can pass
WorkerInfos ==
    [gpus : RegGpus, status : WorkerStatuses, current_job_id : JobIds \cup {NoJob},
     last_heartbeat : {NoTime}, is_simulated : BOOLEAN]

\* Scheduler.register_worker, the registry write: self._workers[id] = worker
register_worker(W, worker_id, worker) == (worker_id :> worker) @@ W

\* Scheduler.register_worker called with a WorkerInfo of the caller's making
\* while no job is pending: the drain that follows finds nothing to place.
RegisterWorker(w, worker) ==
    /\ get_pending_job(jobs) = NoJob
    /\ workers' = register_worker(workers, w, worker)
    /\ reg_order' = IF w \in DOMAIN workers THEN reg_order ELSE Append(reg_order, w)
    /\ frame' = [h \in Workers |->
                   IF pc[h] = "send" /\ frame[h].sel = w
                   THEN [frame[h] EXCEPT !.stale = TRUE] ELSE frame[h]]
    /\ ev' = NoEv
    /\ UNCHANGED << jobs, conn, pc, http, alive, hm_running, hm_task, hm_loops, now >>

\* the available workers of W with free VRAM at or above the resolved
\* requirement of the call
Qualifying(W, workflow_type, required_vram_gb) ==
    {w \in DOMAIN W :
        /\ is_available(W[w])
        /\ free_vram_mb(W[w]) >=
              (IF required_vram_gb \notin {NoVram, 0} THEN required_vram_gb
               ELSE get_vram_requirement(workflow_type)) * 1024}

\* (variant: selection marks the selected worker busy)
registry_after_select_marks_busy(W, sel) ==
    IF sel = NoWorker THEN W ELSE [W EXCEPT ![sel].status = "busy"]

\* the registry once select_worker has returned sel: the method assigns to no
\* attribute of the scheduler or of a worker (its candidate list is a local)
registry_after_select(W, sel) == W

\* Scheduler.select_worker called on the registry; the result is recorded,
\* with whether a qualifying worker precedes it in registry order
SelectWorker(workflow_type, required_vram_gb) ==
    /\ LET sel == select_worker(workers, reg_order, workflow_type, required_vram_gb)
       IN /\ ev' = Ev("select", sel, NoJob,
                      \E c \in Qualifying(workers, workflow_type, required_vram_gb) :
                         IndexOf(reg_order, c) < IndexOf(reg_order, sel))
          /\ workers' = registry_after_select(workers, sel)
    /\ UNCHANGED << jobs, reg_order, conn, pc, frame, http, alive,
                    hm_running, hm_task, hm_loops, now >>

(* --------------------------- health monitor --------------------------- *)
\* a tick that also marks workers whose heartbeat age equals the threshold
TimedOut_at_threshold(W) ==
    {w \in DOMAIN W : /\ W[w].status # "offline"
                      /\ W[w].last_heartbeat # NoTime
                      /\ now - W[w].last_heartbeat >= OfflineThreshold}

\* the workers a tick of _check_all_workers marks offline
TimedOut(W) ==
    {w \in DOMAIN W : /\ W[w].status # "offline"
                      /\ W[w].last_heartbeat # NoTime
                      /\ now - W[w].last_heartbeat > OfflineThreshold}

\* recovery callback handed to the monitor by the job layer: the job the
\* worker holds goes back to pending
on_worker_offline(J, W, worker_id) ==
    update_job_status(J, W[worker_id].current_job_id, "pending", NoMsg)

RECURSIVE RecoverAll(_, _, _)
RecoverAll(J, W, ws) ==
    IF ws = {} THEN J
    ELSE LET w == CHOOSE x \in ws : \A y \in ws : IndexOf(reg_order, x) <= IndexOf(reg_order, y)
         IN RecoverAll(on_worker_offline(J, W, w), W, ws \ {w})

RECURSIVE MarkAll(_, _)
MarkAll(W, ws) ==
    IF ws = {} THEN W
    ELSE LET w == CHOOSE x \in ws : TRUE
         IN MarkAll(update_worker_status(W, w, "offline", NoGpus, NoJob), ws \ {w})

\* HealthMonitor._poll_loop: one pass of _check_all_workers
HealthTick ==
    /\ hm_loops > 0
    /\ hm_running
    /\ LET out == TimedOut(workers)
           W1 == MarkAll(workers, out)
       IN /\ workers' = W1
          /\ jobs' = RecoverAll(jobs, W1, {w \in out : W1[w].current_job_id # NoJob})
          /\ ev' = NoEv
    /\ UNCHANGED << reg_order, conn, pc, frame, http, alive, hm_running, hm_task, hm_loops, now >>

\* start without the _running guard: every call creates a poll loop
start_unguarded(running, task, loops) ==
    [running |-> TRUE, task |-> "live", loops |-> loops + 1]

\* HealthMonitor.start: the monitor's fields after the call
start(running, task, loops) ==
    IF running THEN [running |-> running, task |-> task, loops |-> loops]
    ELSE [running |-> TRUE, task |-> "live", loops |-> loops + 1]

\* HealthMonitor.start, also when the monitor is already running
HMStart ==
    /\ LET r == start(hm_running, hm_task, hm_loops)
       IN /\ hm_running' = r.running
          /\ hm_task' = r.task
          /\ hm_loops' = r.loops
    /\ ev' = Ev("hm_start", NoWorker, NoJob, hm_running)
    /\ UNCHANGED << jobs, workers, reg_order, conn, pc, frame, http, alive, now >>

\* HealthMonitor.stop: the monitor's fields after the call, and whether the
\* call raised.  A task that exists is cancelled and awaited, the
\* CancelledError of the await is swallowed; without a task nothing is awaited.
stop(running, task, loops) ==
    [running |-> FALSE,
     task    |-> IF task = "none" THEN "none" ELSE "cancelled",
     loops   |-> IF task = "live" THEN loops - 1 ELSE loops,
     raised  |-> FALSE]

\* HealthMonitor.stop, also when the monitor is stopped or was never started
HMStop ==
    /\ LET r == stop(hm_running, hm_task, hm_loops)
       IN /\ hm_running' = r.running
          /\ hm_task' = r.task
          /\ hm_loops' = r.loops
          /\ ev' = Ev("hm_stop", NoWorker, NoJob, r.raised)
    /\ UNCHANGED << jobs, workers, reg_order, conn, pc, frame, http, alive, now >>

\* _check_all_workers with a recovery callback that raises for the workers
\* in bad: the workers are visited in registry order; a timed-out worker is
\* marked offline and then, if it holds a job, the callback is called; an
\* exception leaves the method, the workers after it are not visited
RECURSIVE check_all_workers(_, _, _, _)
check_all_workers(ord, J, W, bad) ==
    IF ord = << >> THEN [W |-> W, J |-> J, raised |-> FALSE]
    ELSE LET w == Head(ord)
         IN IF w \in TimedOut(W)
            THEN LET W1 == update_worker_status(W, w, "offline", NoGpus, NoJob)
                 IN IF W1[w].current_job_id # NoJob
                    THEN IF w \in bad
                         THEN [W |-> W1, J |-> J, raised |-> TRUE]
                         ELSE check_all_workers(Tail(ord), on_worker_offline(J, W1, w),
                                                W1, bad)
                    ELSE check_all_workers(Tail(ord), J, W1, bad)
            ELSE check_all_workers(Tail(ord), J, W, bad)

\* (variant: no try/except around the pass, an exception ends the poll loop)
poll_loop_dies_on_error(loops, raised) == IF raised THEN loops - 1 ELSE loops

\* _poll_loop after a pass: `except Exception` logs the error and the loop
\* goes on to its sleep
poll_loop_after_pass(loops, raised) == loops

\* HealthMonitor._poll_loop: one pass, the callback raising for the workers
\* in bad
PollLoopPass(bad) ==
    /\ hm_loops > 0
    /\ hm_running
    /\ LET r == check_all_workers(reg_order, jobs, workers, bad)
       IN /\ workers' = r.W
          /\ jobs' = r.J
          /\ hm_loops' = poll_loop_after_pass(hm_loops, r.raised)
          /\ ev' = Ev("tick", NoWorker, NoJob, r.raised)
    /\ UNCHANGED << reg_order, conn, pc, frame, http, alive, hm_running, hm_task, now >>

(* ----------------------------- environment ---------------------------- *)
\* time passes
Tick ==
    /\ now < MaxTime
    /\ now' = now + 1
    /\ ev' = NoEv
    /\ UNCHANGED << jobs, workers, reg_order, conn, pc, frame, http, alive, hm_running, hm_task, hm_loops >>

\* the worker process dies or hangs: it sends nothing from now on
Crash(w) ==
    /\ alive[w]
    /\ alive' = [alive EXCEPT ![w] = FALSE]
    /\ ev' = NoEv
    /\ UNCHANGED << jobs, workers, reg_order, conn, pc, frame, http, hm_running, hm_task, hm_loops, now >>

\* The master as main.py wires it, seen from the dispatch side: transport
\* loop and job routes (the clock stands still).
Next ==
    \/ \E w \in Workers : Connect(w)
    \/ \E w \in Workers : Disconnect(w)
    \/ \E w \in Workers, g \in RawSnapshots : Heartbeat(w, g)
    \/ \E h \in Workers, ok \in BOOLEAN : DrainSendReturn(h, ok)
    \/ \E w \in Workers, j \in JobIds : JobStarted(w, j)
    \/ \E w \in Workers, j \in JobIds, f \in OutputLists : JobCompleted(w, j, f)
    \/ \E w \in Workers, j \in JobIds, e \in ErrorTexts : JobFailed(w, j, e)
    \/ \E w \in Workers, j \in JobIds, p \in ProgressValues : JobProgress(w, j, p)
    \/ \E wt \in WorkflowTypes, ok \in BOOLEAN : CreateJob(wt, ok)
    \/ \E j \in JobIds, ok \in BOOLEAN : CreateSendReturn(j, ok)
    \/ \E j \in JobIds : CancelJob(j)
    \/ \E w \in Workers, k \in MalformedKinds : Malformed(w, k)

Spec == Init /\ [][Next]_vars

\* The job store over time: job routes and job events of connected workers,
\* with the clock running (no heartbeat, so the registry stays empty).
JobNext ==
    \/ \E w \in Workers : Connect(w)
    \/ \E w \in Workers : Disconnect(w)
    \/ \E w \in Workers, j \in JobIds : JobStarted(w, j)
    \/ \E w \in Workers, j \in JobIds, f \in AllOutputLists : JobCompleted(w, j, f)
    \/ \E w \in Workers, j \in JobIds, e \in ErrorTexts : JobFailed(w, j, e)
    \/ \E w \in Workers, j \in JobIds, p \in ProgressValues : JobProgress(w, j, p)
    \/ \E wt \in WorkflowTypes, ok \in BOOLEAN : CreateJob(wt, ok)
    \/ \E j \in JobIds, ok \in BOOLEAN : CreateSendReturn(j, ok)
    \/ \E j \in JobIds : CancelJob(j)
    \/ Tick

JobSpec == Init /\ [][JobNext]_vars

\* The scheduler with a Health Monitor started on it and the registry's
\* update operation in use (workers report 24 GB free; jobs of a kind that
\* is not in the table).
MonNext ==
    \/ \E w \in Workers : Connect(w)
    \/ \E w \in Workers, g \in {RawGpu24} : Heartbeat(w, g)
    \/ \E h \in Workers, ok \in BOOLEAN : DrainSendReturn(h, ok)
    \/ \E wt \in {"text_to_image"}, ok \in BOOLEAN : CreateJob(wt, ok)
    \/ \E w \in Workers, s \in ReportedStatuses, g \in {NoGpus},
          j \in JobIds \cup {NoJob} : UpdateWorkerStatus(w, s, g, j)
    \/ HealthTick
    \/ HMStart
    \/ Tick

MonSpec == Init /\ [][MonNext]_vars

\* Worker-liveness recovery: heartbeat registration, dispatch, a worker that
\* falls silent, the running monitor and the clock.  The monitor's poll loop
\* and the clock keep going.
LiveNext ==
    \/ \E w \in Workers : Connect(w)
    \/ \E w \in Workers, g \in RawSnapshots : Heartbeat(w, g)
    \/ \E h \in Workers, ok \in BOOLEAN : DrainSendReturn(h, ok)
    \/ \E wt \in WorkflowTypes, ok \in BOOLEAN : CreateJob(wt, ok)
    \/ HealthTick
    \/ HMStart
    \/ Tick
    \/ \E w \in Workers : Crash(w)

LiveSpec ==
    Init /\ [][LiveNext]_vars /\ WF_vars(HealthTick) /\ WF_vars(Tick) /\ WF_vars(HMStart)

\* The scheduling registry used through its own interface: registrations
\* with records of any content, and selections.
RegNext ==
    \/ \E w \in Workers, worker \in WorkerInfos : RegisterWorker(w, worker)
    \/ \E wt \in WorkflowTypes, req \in RequiredVram : SelectWorker(wt, req)

RegSpec == Init /\ [][RegNext]_vars

\* The Health Monitor's life cycle on a registry whose workers report through
\* heartbeats and status updates (no jobs).
HMNext ==
    \/ \E w \in Workers : Connect(w)
    \/ \E w \in Workers, g \in {RawGpu24, RawSimulated} : Heartbeat(w, g)
    \/ \E w \in Workers, s \in {"online"}, g \in {NoGpus}, j \in {NoJob} :
          UpdateWorkerStatus(w, s, g, j)
    \/ HealthTick
    \/ HMStart
    \/ HMStop
    \/ Tick

HMSpec == Init /\ [][HMNext]_vars

\* Drains alone: connections, heartbeats of workers with 24 GB free, job
\* creation and the sends of job_assign.
DrainNext ==
    \/ \E w \in Workers : Connect(w)
    \/ \E w \in Workers, g \in {RawGpu24} : Heartbeat(w, g)
    \/ \E h \in Workers, ok \in BOOLEAN : DrainSendReturn(h, ok)
    \/ \E wt \in WorkflowTypes, ok \in BOOLEAN : CreateJob(wt, ok)
    \/ \E j \in JobIds, ok \in BOOLEAN : CreateSendReturn(j, ok)

DrainSpec == Init /\ [][DrainNext]_vars

\* The job store's queue read on stores of any content: up to MaxPend jobs
\* with different creation times, any priority, pending or not.
MaxPend == 3
FifoIds == 1..MaxPend
FifoStatuses == {"pending", "running", "completed"}
FifoPriorities == {1, 3}

\* a stored job of the given status, priority and creation time
FifoRow(status, priority, created_at) ==
    [status |-> status, workflow_type |-> "wan_2_2", progress |-> 0,
     priority |-> priority, assigned_worker_id |-> NoWorker,
     created_at |-> created_at,
     started_at |-> IF status = "running" THEN created_at ELSE NoTime,
     completed_at |-> IF status = "completed" THEN created_at ELSE NoTime,
     error_message |-> NoMsg, output_files |-> << >>]

FifoRows ==
    {FifoRow(s, p, c) : s \in FifoStatuses, p \in FifoPriorities, c \in FifoIds}

FifoInit ==
    /\ jobs \in {t \in [FifoIds -> FifoRows \cup {NoRow}] :
                    \A a \in FifoIds, b \in FifoIds :
                       (a # b /\ t[a] # NoRow /\ t[b] # NoRow)
                          => t[a].created_at # t[b].created_at}
    /\ workers = [w \in {} |-> NewWorkerInfo(<< >>)]
    /\ reg_order = << >>
    /\ conn = << >>
    /\ pc = [w \in Workers |-> "closed"]
    /\ frame = [w \in Workers |-> NoFrame]
    /\ http = [j \in JobIds |-> NoHttp]
    /\ alive = [w \in Workers |-> TRUE]
    /\ hm_running = FALSE
    /\ hm_task = "none"
    /\ hm_loops = 0
    /\ now = MaxPend
    /\ ev = NoEv

\* JobManager.get_pending_job called on the store; the result is recorded
GetPendingJob ==
    /\ ev' = Ev("pending", NoWorker, get_pending_job(jobs), FALSE)
    /\ UNCHANGED << jobs, workers, reg_order, conn, pc, frame, http, alive,
                    hm_running, hm_task, hm_loops, now >>

FifoNext == GetPendingJob

FifoSpec == FifoInit /\ [][FifoNext]_vars

\* The monitor with a recovery callback that can fail: workers registered
\* by heartbeats and reporting busy with a job, a job run locally, the poll
\* loop and the clock.  The poll loop keeps making passes.
FailNext ==
    \/ \E w \in Workers : Connect(w)
    \/ \E w \in Workers, g \in {RawGpu24} : Heartbeat(w, g)
    \/ \E wt \in {"text_to_image"}, ok \in {TRUE} : CreateJob(wt, ok)
    \/ \E w \in Workers, s \in {"busy"}, g \in {NoGpus}, j \in JobIds :
          UpdateWorkerStatus(w, s, g, j)
    \/ \E bad \in SUBSET Workers : PollLoopPass(bad)
    \/ HMStart
    \/ Tick

FailSpec ==
    Init /\ [][FailNext]_vars /\ WF_vars(\E bad \in SUBSET Workers : PollLoopPass(bad))

(* ============================== claims ================================ *)

\* C1 - VRAM safety: every job_assign that was sent (by a drain or by the
\* job-creation route) went to a worker that was available and had free VRAM
\* at or above the job's resolved requirement when it was selected.
C1_VramSafety ==
    ev.op \in {"dispatch_ok", "create_sent"} => ev.flag

\* C2 - No double-claim: no two drains hold the same pending job at once.
C2_NoDoubleClaim ==
    \A h1 \in Workers, h2 \in Workers :
        (h1 # h2 /\ pc[h1] = "send" /\ pc[h2] = "send")
            => frame[h1].job # frame[h2].job

\* C3 - Terminal immutability: a step never changes the record of a job whose
\* status is completed, failed or cancelled.
C3_TerminalImmutable ==
    [][\A j \in JobIds :
          (jobs[j] # NoRow /\ jobs[j].status \in Terminal) => jobs'[j] = jobs[j]]_vars

\* C4 - When schedule_job has returned a worker for a job, the registry shows
\* that worker busy with the job and the job's stored status is assigned.
C4_DispatchCommits ==
    ev.op = "dispatch_ok" =>
        /\ workers[ev.w].status = "busy"
        /\ workers[ev.w].current_job_id = ev.j
        /\ jobs[ev.j].status = "assigned"

\* C5 - Dispatch-send-failure commits no partial state: the step in which the
\* send of job_assign fails leaves the registry (the selected worker's
\* status and current_job_id included) and the job record as they were; a
\* job that was pending is still pending, with no assigned worker.
C5_SendFailureNoPartialState ==
    [][ev'.op = "dispatch_fail" =>
          /\ workers' = workers
          /\ jobs'[ev'.j] = jobs[ev'.j]
          /\ (jobs[ev'.j].status = "pending" =>
                /\ jobs'[ev'.j].status = "pending"
                /\ jobs'[ev'.j].assigned_worker_id = NoWorker)]_vars

\* a send to a selected online worker has failed while the job was pending
C5_Witness ==
    /\ ev.op = "dispatch_fail"
    /\ jobs[ev.j].status = "pending"
    /\ workers[ev.w].status = "online"
    /\ workers[ev.w].current_job_id = NoJob

\* C6 - Worker-liveness recovery: a worker that is busy with job J and has
\* fallen silent while the monitor runs is eventually offline, with J
\* pending again.
C6_LivenessRecovery ==
    \A w \in Workers, j \in JobIds :
        ( /\ w \in DOMAIN workers
          /\ workers[w].status = "busy"
          /\ workers[w].current_job_id = j
          /\ ~alive[w]
          /\ hm_running
          /\ now + OfflineThreshold < MaxTime )
        ~> ( /\ w \in DOMAIN workers
             /\ workers[w].status = "offline"
             /\ jobs[j].status = "pending" )

\* C7 - No-capacity is not an error and is retried: after a drain that found
\* no worker for the oldest pending job the receive loop that ran it goes on
\* and the job is pending; and once a heartbeat's drain has placed the job,
\* the job is assigned.
C7_NoCapacityRetried ==
    /\ ev.op = "no_capacity" => (pc[ev.w] = "recv" /\ jobs[ev.j].status = "pending")
    /\ ev.op = "dispatch_ok" => jobs[ev.j].status = "assigned"

\* C8 - After a job_completed or job_failed message of a worker has been
\* processed, the registry's record of that worker is online with no
\* current job.
C8_WorkerFreedOnJobEnd ==
    [][\A w \in Workers, j \in JobIds :
          ( /\ w \in DOMAIN workers
            /\ \/ \E f \in OutputLists : JobCompleted(w, j, f)
               \/ \E e \in ErrorTexts : JobFailed(w, j, e) )
          => (workers'[w].current_job_id = NoJob /\ workers'[w].status = "online")]_vars

\* C9 - A job's assigned_worker_id is set exactly when its status is
\* assigned or running.
C9_AssignedWorkerIffActive ==
    \A j \in JobIds :
        jobs[j] # NoRow =>
            ((jobs[j].assigned_worker_id # NoWorker)
                <=> (jobs[j].status \in {"assigned", "running"}))

\* C10 - A registered worker whose current_job_id is set has status busy.
C10_CurrentJobImpliesBusy ==
    \A w \in DOMAIN workers :
        workers[w].current_job_id # NoJob => workers[w].status = "busy"

\* C11 - Liveness monotonicity: a registered worker that has fallen silent
\* while the monitor runs makes the transition to offline in that loss
\* period (exactly once: it is marked, and a worker that is offline is
\* skipped by the following ticks).
C11_LivenessMonotonicity ==
    \A w \in Workers :
        ( /\ w \in DOMAIN workers
          /\ workers[w].status # "offline"
          /\ ~alive[w]
          /\ hm_running
          /\ now + OfflineThreshold < MaxTime )
        ~> ( w \in DOMAIN workers /\ workers[w].status = "offline" )

\* C12 - Placeholder deprioritization: whenever an available worker with
\* real hardware data qualifies, select_worker returns a worker with real
\* data, however much more free VRAM a qualifying placeholder worker has; a
\* placeholder worker is returned only when no real worker qualifies.
C12_PlaceholderDeprioritized ==
    [][\A wt \in WorkflowTypes, req \in RequiredVram :
          SelectWorker(wt, req) =>
            LET q == Qualifying(workers, wt, req)
                real == {w \in q : ~workers[w].is_simulated}
            IN /\ real # {} => ev'.w \in real
               /\ real = {} /\ q # {} => ev'.w \in q
               /\ q = {} => ev'.w = NoWorker]_vars

\* a real worker was selected although an available placeholder worker had
\* more free VRAM
C12_Witness ==
    /\ ev.op = "select" /\ ev.w # NoWorker
    /\ ~workers[ev.w].is_simulated
    /\ \E s \in DOMAIN workers :
          /\ workers[s].is_simulated /\ is_available(workers[s])
          /\ free_vram_mb(workers[s]) > free_vram_mb(workers[ev.w])

\* C13 - Load spreading: among the qualifying workers of the class of the
\* selected one (real data if any real worker qualifies, placeholder
\* otherwise) select_worker returns one whose free VRAM is maximal.
C13_LoadSpreading ==
    [][\A wt \in WorkflowTypes, req \in RequiredVram :
          SelectWorker(wt, req) =>
            LET q == Qualifying(workers, wt, req)
                real == {w \in q : ~workers[w].is_simulated}
                class == IF real # {} THEN real ELSE q
            IN class # {} =>
                 /\ ev'.w \in class
                 /\ \A c \in class :
                       free_vram_mb(workers[c]) <= free_vram_mb(workers[ev'.w])]_vars

\* the worker with 20 GB free was selected although the worker with 10 GB
\* free, which also qualified, comes first in the registry
C13_Witness ==
    /\ ev.op = "select" /\ ev.w # NoWorker /\ ev.flag
    /\ workers[ev.w].gpus = Gpu20
    /\ \E c \in DOMAIN workers :
          /\ c # ev.w /\ is_available(workers[c])
          /\ workers[c].is_simulated = workers[ev.w].is_simulated
          /\ workers[c].gpus = Gpu10
          /\ IndexOf(reg_order, c) < IndexOf(reg_order, ev.w)

\* C14 - A malformed inbound message is dropped: the step that processes it
\* changes neither the registry nor any job record, and the receive loop of
\* the connection it came in on goes on receiving.
C14_MalformedDropped ==
    [][\A w \in Workers :
          (ev'.op = "malformed" /\ ev'.w = w /\ pc[w] = "recv") =>
             /\ workers' = workers
             /\ jobs' = jobs
             /\ pc'[w] = "recv"
             /\ InSeq(conn', w) = InSeq(conn, w)]_vars

\* C15 - Every status change of a job that is not terminal follows an edge of
\* the job state machine: pending to assigned, assigned to running, running
\* to completed or failed, any non-terminal status to cancelled, and the
\* recovery requeue of an assigned or running job to pending.  A job that
\* is created in a step is pending after it, or has moved on from pending
\* along an edge.
C15_StateMachineEdges ==
    [][\A j \in JobIds :
          LET edges == { <<"pending", "assigned">>, <<"assigned", "running">>,
                         <<"running", "completed">>, <<"running", "failed">>,
                         <<"pending", "cancelled">>, <<"assigned", "cancelled">>,
                         <<"running", "cancelled">>,
                         <<"assigned", "pending">>, <<"running", "pending">> }
              old == IF jobs[j] = NoRow THEN "pending" ELSE jobs[j].status
          IN (jobs'[j] # NoRow /\ old \notin Terminal /\ jobs'[j].status # old)
                => << old, jobs'[j].status >> \in edges]_vars

\* C16 - No lost update on a worker's registry record: once schedule_job has
\* returned the worker it marked busy with a job, and no handler is
\* suspended in a send any more, the record the registry holds for that
\* worker is busy with that job, also when a heartbeat of the same worker
\* was registered while the send was awaited.
C16_NoLostUpdate ==
    (ev.op = "dispatch_ok" /\ \A h \in Workers : pc[h] # "send") =>
        /\ workers[ev.w].status = "busy"
        /\ workers[ev.w].current_job_id = ev.j

\* C17 - Execution failure is terminal and not retried: the step that
\* processes a job_failed message for a job leaves the job failed with the
\* error field equal to the error text of the message; and a failed job is
\* not made pending again, not picked up by a drain and not sent by the
\* job-creation route.
C17_FailureTerminal ==
    [][/\ \A w \in Workers, j \in JobIds, e \in ErrorTexts :
            (JobFailed(w, j, e) /\ jobs[j] # NoRow) =>
                /\ jobs'[j].status = "failed"
                /\ jobs'[j].error_message = e
       /\ \A j \in JobIds :
            (jobs[j] # NoRow /\ jobs[j].status = "failed") =>
                /\ jobs'[j].status # "pending"
                /\ \A h \in Workers : frame'[h].job = j => frame[h].job = j
                /\ http'[j] # NoHttp => http[j] # NoHttp]_vars

\* C18 - No partial success: a job becomes completed only through a
\* job_completed message and then carries the output references of that
\* message; the outputs of a completed job are not replaced afterwards.
C18_NoPartialSuccess ==
    [][\A j \in JobIds :
          /\ (jobs'[j] # NoRow /\ jobs'[j].status = "completed"
                 /\ (jobs[j] = NoRow \/ jobs[j].status # "completed")) =>
                \E w \in Workers, f \in AllOutputLists :
                    JobCompleted(w, j, f) /\ jobs'[j].output_files = file_urls(f)
          /\ (jobs[j] # NoRow /\ jobs[j].status = "completed"
                 /\ jobs'[j].status = "completed") =>
                jobs'[j].output_files = jobs[j].output_files]_vars

\* C19 - Registration is an upsert keyed by worker id that revives offline
\* workers: after register_worker for an id the registry holds one record
\* for that id, and if the record it held before was offline the record is
\* online afterwards, whatever status the incoming record carries.
C19_RegisterRevives ==
    [][\A w \in Workers, worker \in WorkerInfos :
          RegisterWorker(w, worker) =>
             /\ w \in DOMAIN workers'
             /\ Cardinality({i \in 1..Len(reg_order') : reg_order'[i] = w}) = 1
             /\ (w \in DOMAIN workers /\ workers[w].status = "offline")
                   => workers'[w].status = "online"]_vars

\* C20 - markOffline: the monitor's update_worker_status(worker_id,
\* "offline") sets the status of each worker it marks to offline and leaves
\* that worker's current_job_id as it was; the other records are untouched,
\* and unless the recovery callback runs (a marked worker holds a job) no
\* job record changes in the tick.
C20_MarkOfflineFrame ==
    [][HealthTick =>
          LET out == TimedOut(workers)
          IN /\ \A w \in out :
                   /\ workers'[w].status = "offline"
                   /\ workers'[w].current_job_id = workers[w].current_job_id
             /\ \A w \in DOMAIN workers \ out : workers'[w] = workers[w]
             /\ (\A w \in out : workers[w].current_job_id = NoJob) => jobs' = jobs]_vars

\* a worker has been marked offline by the monitor and still holds its job
C20_Witness ==
    \E w \in DOMAIN workers :
        /\ workers[w].status = "offline"
        /\ workers[w].current_job_id # NoJob
        /\ jobs[workers[w].current_job_id] # NoRow


\* C21 - Health Monitor life cycle: there is never more than one poll loop,
\* and start() on a running monitor creates none; stop() does not raise and
\* leaves no poll loop, whether the monitor was running, already stopped or
\* never started; while the monitor is stopped no step other than start()
\* marks a worker offline (no tick runs until the next start()).
C21_MonitorLifecycle ==
    [][/\ hm_loops' <= 1
       /\ (ev'.op = "hm_start" /\ ev'.flag => hm_loops' = hm_loops /\ hm_running')
       /\ (ev'.op = "hm_stop" => ~ev'.flag /\ hm_loops' = 0 /\ ~hm_running')
       /\ (~hm_running /\ ev'.op # "hm_start" =>
              \A w \in DOMAIN workers :
                 workers[w].status # "offline" => workers'[w].status # "offline")]_vars

\* start() was called on a running monitor whose loop has already marked a
\* worker offline
C21_Witness ==
    /\ ev.op = "hm_start" /\ ev.flag
    /\ hm_task = "live"
    /\ \E w \in DOMAIN workers : workers[w].status = "offline"


\* C22 - At most one active job per worker: a heartbeat processed for a
\* worker that the registry shows busy with a job not yet reported completed
\* or failed does not make that worker available for selection again.
C22_HeartbeatKeepsBusy ==
    [][\A w \in Workers, g \in RawSnapshots :
          (/\ Heartbeat(w, g)
           /\ w \in DOMAIN workers
           /\ workers[w].status = "busy"
           /\ workers[w].current_job_id # NoJob
           /\ jobs[workers[w].current_job_id].status \notin {"completed", "failed"})
             => ~is_available(workers'[w])]_vars


\* C23 - A job is never assigned twice without a requeue in between: once
\* job_assign for a job has been delivered, no drain (the same one in a
\* later iteration, or another one) is sending job_assign for that job.
C23_NoSecondAssign ==
    ev.op = "dispatch_ok" =>
        \A h \in Workers : pc[h] = "send" => frame[h].job # ev.j


\* C24 - Heartbeat freshness: when a heartbeat has been processed, the
\* worker's registry record carries the time of processing as last_heartbeat
\* and the GPU snapshot the heartbeat reported.
C24_HeartbeatFreshness ==
    [][\A w \in Workers, g \in {RawGpu24, RawSimulated} :
          Heartbeat(w, g) =>
             /\ w \in DOMAIN workers'
             /\ workers'[w].last_heartbeat = now
             /\ Len(workers'[w].gpus) = Len(g)
             /\ \A i \in 1..Len(g) :
                   /\ workers'[w].gpus[i].memory_total_mb = g[i].memory_total
                   /\ workers'[w].gpus[i].memory_used_mb = g[i].memory_used]_vars


\* C29 - The placeholder flag reaches the registry: after a heartbeat whose
\* GPU data is marked simulated the worker's record has is_simulated set,
\* and after one with detected GPUs it has it clear.
C29_PlaceholderFlagStored ==
    [][\A w \in Workers, g \in {RawGpu24, RawSimulated} :
          Heartbeat(w, g) =>
             /\ w \in DOMAIN workers'
             /\ workers'[w].is_simulated = (\E i \in 1..Len(g) : g[i].is_simulated)]_vars


\* C25 - On each Health Monitor tick exactly the non-offline workers whose
\* heartbeat age (now - last_heartbeat, for a recorded heartbeat) strictly
\* exceeds the offline threshold become offline, every other worker's record
\* is untouched, and the only job records that change are those the recovery
\* callback resets for the newly-offline workers that held a current_job_id.
C25_TickExactness ==
    [][HealthTick =>
          LET late == {w \in DOMAIN workers :
                          /\ workers[w].status # "offline"
                          /\ workers[w].last_heartbeat # NoTime
                          /\ now - workers[w].last_heartbeat > OfflineThreshold}
              held == {workers[w].current_job_id :
                          w \in {x \in late : workers[x].current_job_id # NoJob}}
          IN /\ DOMAIN workers' = DOMAIN workers
             /\ \A w \in late : workers'[w].status = "offline"
             /\ \A w \in DOMAIN workers \ late : workers'[w] = workers[w]
             /\ \A j \in JobIds :
                   IF j \in held /\ jobs[j] # NoRow
                   THEN jobs'[j].status = "pending"
                   ELSE jobs'[j] = jobs[j]]_vars

\* a tick at this instant has marked a worker that held a job, whose job is
\* pending again, and has left alone a worker whose heartbeat age is exactly
\* the threshold
C25_Witness ==
    \E w1 \in DOMAIN workers, w2 \in DOMAIN workers :
        /\ workers[w1].status = "offline"
        /\ workers[w1].last_heartbeat = now
        /\ workers[w1].current_job_id # NoJob
        /\ jobs[workers[w1].current_job_id] # NoRow
        /\ jobs[workers[w1].current_job_id].status = "pending"
        /\ workers[w2].status # "offline"
        /\ workers[w2].last_heartbeat # NoTime
        /\ now - workers[w2].last_heartbeat = OfflineThreshold


C27_LoopSurvivesMessageFailure ==
    [][\A w \in Workers :
          (pc[w] # "closed" /\ pc'[w] = "closed") => Disconnect(w)]_vars

\* C28 - After a worker's connection has closed the worker is not selected
\* until it connects and heartbeats again: the worker a drain newly selects
\* for a send has an open connection.
C28_ClosedWorkerNotSelected ==
    [][\A h \in Workers :
          (pc'[h] = "send" /\ frame'[h] # frame[h]
             /\ frame'[h].sel # frame[h].sel)
            => InSeq(conn, frame'[h].sel)]_vars


\* C30 - Requirement resolution: select_worker filters with the supplied
\* requirement whenever one is supplied (the value 0 included), otherwise
\* with the table entry of the workflow kind, the default entry exactly when
\* the kind is not in the table: it returns a worker that is available with
\* that much free VRAM, and nobody only when there is none.
C30_RequirementResolution ==
    [][\A wt \in WorkflowTypes, req \in RequiredVram :
          SelectWorker(wt, req) =>
             LET needed == IF req # NoVram THEN req
                           ELSE IF wt \in DOMAIN VRAM_REQUIREMENTS
                                THEN VRAM_REQUIREMENTS[wt]
                                ELSE VRAM_REQUIREMENTS["default"]
                 q == {w \in DOMAIN workers :
                          /\ is_available(workers[w])
                          /\ free_vram_mb(workers[w]) >= needed * 1024}
             IN /\ ev'.w # NoWorker => ev'.w \in q
                /\ ev'.w = NoWorker => q = {}]_vars


\* C31 - select_worker is read-only: whatever it returns, the registry (the
\* set of workers, their order and every field of every record) and the job
\* store are the same after the call as before it.
C31_SelectReadOnly ==
    [][\A wt \in WorkflowTypes, req \in RequiredVram :
          SelectWorker(wt, req) =>
             /\ workers' = workers
             /\ reg_order' = reg_order
             /\ jobs' = jobs]_vars

\* a selection has returned a worker, which is still available
C31_Witness ==
    /\ ev.op = "select" /\ ev.w # NoWorker
    /\ is_available(workers[ev.w])
    /\ workers[ev.w].current_job_id = NoJob


\* C32 - get_pending_job returns the pending job with the earliest creation
\* time, and nothing exactly when no job is pending; a job in another status
\* is never returned and priorities play no part in the choice.
C32_PendingFifo ==
    [][GetPendingJob =>
          LET pend == {j \in DOMAIN jobs : jobs[j] # NoRow /\ jobs[j].status = "pending"}
          IN /\ (ev'.j = NoJob) <=> (pend = {})
             /\ ev'.j # NoJob =>
                   /\ ev'.j \in pend
                   /\ \A k \in pend : jobs[ev'.j].created_at <= jobs[k].created_at]_vars

\* the job returned is older than a pending job of higher priority and of
\* lower id, while a still older job that is not pending was passed over
C32_Witness ==
    /\ ev.op = "pending" /\ ev.j # NoJob
    /\ \E k \in DOMAIN jobs :
          /\ jobs[k] # NoRow /\ jobs[k].status = "pending"
          /\ k < ev.j
          /\ jobs[k].priority > jobs[ev.j].priority
          /\ jobs[k].created_at > jobs[ev.j].created_at
    /\ \E d \in DOMAIN jobs :
          /\ jobs[d] # NoRow /\ jobs[d].status # "pending"
          /\ jobs[d].created_at < jobs[ev.j].created_at


\* C33 - A caller can tell a no-op from an applied change: when a job is
\* cancelled, update_job_status returns a result, and the cancel endpoint
\* reports the cancellation, exactly when the job existed and was still
\* active (not completed, failed or cancelled).
C33_NoOpDetectable ==
    [][\A j \in JobIds :
          CancelJob(j) =>
             LET applied == jobs[j] # NoRow /\ jobs[j].status \notin Terminal
             IN /\ (update_job_status_result(jobs, j, "cancelled", NoMsg) # NoResult)
                      <=> applied
                /\ (cancel_job_response(jobs, j).message = "Job cancelled")
                      <=> applied]_vars


\* C34 - A job's error message is set only if its status is failed.
C34_ErrorOnlyIfFailed ==
    \A j \in JobIds :
        (jobs[j] # NoRow /\ jobs[j].error_message # NoMsg) => jobs[j].status = "failed"

\* C35 - started_at is written at most once per job: once it is set, no step
\* changes it.
C35_StartedAtOnce ==
    [][\A j \in JobIds :
          (jobs[j] # NoRow /\ jobs[j].started_at # NoTime)
             => jobs'[j].started_at = jobs[j].started_at]_vars

\* C36 - After every step a job's completed_at is set if and only if its
\* status is completed, failed or cancelled, and a completed_at that was set
\* keeps its value.
C36_CompletedAtIffTerminal ==
    [][\A j \in JobIds :
          jobs'[j] # NoRow =>
             /\ (jobs'[j].completed_at # NoTime) <=> (jobs'[j].status \in Terminal)
             /\ (jobs[j] # NoRow /\ jobs[j].completed_at # NoTime)
                   => jobs'[j].completed_at = jobs[j].completed_at]_vars

\* C37 - Progress stays in [0, 1]: a job_progress message for a stored job
\* leaves the job with the reported value clamped to [0, 1] as its progress
\* and with every other field, the status included, as it was.
C37_ProgressClamped ==
    [][\A w \in Workers, j \in JobIds, p \in ProgressValues :
          (JobProgress(w, j, p) /\ jobs[j] # NoRow) =>
             jobs'[j] = [jobs[j] EXCEPT
                            !.progress = IF p < 0 THEN 0 ELSE IF p > 1 THEN 1 ELSE p]]_vars


\* C38 - Marking a worker offline is not a liveness signal: a worker that a
\* Health Monitor tick turns offline keeps its last_heartbeat, and every
\* other field but the status.
C38_OfflineKeepsLastHeartbeat ==
    [][HealthTick =>
          \A w \in DOMAIN workers :
             (workers[w].status # "offline" /\ workers'[w].status = "offline")
                => workers'[w] = [workers[w] EXCEPT !.status = "offline"]]_vars


\* C39 - The Health Monitor survives a failing tick: while the monitor is
\* started its one poll loop is alive, also after a pass in which the
\* recovery callback raised; a worker whose heartbeat age exceeds the
\* threshold does not stay that way (it is marked offline by that pass or a
\* later one, unless it reports again); and a pass resets the job of every
\* worker it marks whose callback returns.
C39_MonitorSurvivesFailingTick ==
    /\ [][hm_running' => hm_loops' = 1]_vars
    /\ \A w \in Workers :
          (hm_running /\ w \in TimedOut(workers)) ~> (w \notin TimedOut(workers))
    /\ [][\A bad \in SUBSET Workers :
            PollLoopPass(bad) =>
               \A w \in DOMAIN workers :
                  (/\ workers[w].status # "offline" /\ workers'[w].status = "offline"
                   /\ w \notin bad
                   /\ workers[w].current_job_id # NoJob
                   /\ jobs[workers[w].current_job_id] # NoRow)
                     => jobs'[workers[w].current_job_id].status = "pending"]_vars

\* a pass has just marked a worker that holds a job, its callback raised,
\* and another timed-out worker has not been visited; the loop is alive
C39_Witness ==
    /\ ev.op = "tick" /\ ev.flag
    /\ hm_running /\ hm_loops = 1
    /\ \E w1 \in DOMAIN workers, w2 \in DOMAIN workers :
          /\ workers[w1].status = "offline"
          /\ workers[w1].current_job_id # NoJob
          /\ workers[w1].last_heartbeat = now
          /\ w2 \in TimedOut(workers)

====
